---- MODULE Spec2Model ----
(***************************************************************************)
(* Risk engine of the smart-healthcare application: calculate_risk of      *)
(* risk_utils.py as it is called by the risk form of app.py.               *)
(*                                                                         *)
(* Numbers with one decimal are held in tenths: a penalty of 1.5 is 15, a  *)
(* BMI of 18.5 is 185, the tier threshold 7 is 70.  Every penalty of the   *)
(* code is a multiple of 0.1 and every sum of six of them is below 2^53    *)
(* tenths, and the float sum of each of the 4320 bucket combinations is    *)
(* the double nearest to the decimal sum, so the comparisons against 2, 4  *)
(* and 7 agree with the comparisons in tenths.                             *)
(***************************************************************************)
EXTENDS Integers, Sequences, FiniteSets, TLC

VARIABLES
    age, bmi, bp, cholesterol, glucose, smoking,   \* the form's values, the call's arguments
    pc,                                            \* "form": not submitted; "done": results shown
    risk, color, score, recommendations,           \* what calculate_risk returned to the form
    earlier,                                       \* history: an earlier call of the session, or NoCall
    pdf,                                           \* generate_pdf's document so far, a sequence of lines
    pdf_bytes,                                     \* what generate_pdf returned to the form
    pdf_calls,                                     \* history: calls of generate_pdf in this submission
    messages,                                      \* the st.error messages on the page
    download,                                      \* whether the page holds the download button
    category,                                      \* what the categorizer called last returned
    screen,                                        \* the numbered recommendations on the page
    interpretation,                                \* what get_risk_interpretation returned last
    frames,                                        \* direct invocations of calculate_risk: their locals
    heap                                           \* the list objects those invocations created

vars == <<age, bmi, bp, cholesterol, glucose, smoking, pc,
          risk, color, score, recommendations, earlier,
          pdf, pdf_bytes, pdf_calls, messages, download, category,
          screen, interpretation, frames, heap>>

args == <<age, bmi, bp, cholesterol, glucose, smoking>>

(***************************************************************************)
(* The input domain: the ranges of the form's widgets.                     *)
(***************************************************************************)
AgeMin == 1
AgeMax == 120
BmiMin == 100
BmiMax == 600
BpMin == 60
BpMax == 250
CholesterolMin == 100
CholesterolMax == 400
GlucoseMin == 50
GlucoseMax == 300
SmokingOptions == <<"Non-smoker", "Former smoker", "Current smoker">>

Range(f) == {f[i] : i \in DOMAIN f}

(***************************************************************************)
(* The thresholds the conditionals of calculate_risk compare against.      *)
(***************************************************************************)
BmiCuts == {185, 250, 300, 350}
BpCuts == {90, 120, 130, 140, 180}
CholesterolCuts == {200, 240}
GlucoseCuts == {70, 100, 126}
AgeCuts == {30, 45, 60}

(***************************************************************************)
(* calculate_risk, section by section.  acc is the pair of locals          *)
(* (risk_score, recommendations) each section updates in place.            *)
(***************************************************************************)
Add(acc, penalty, advice) ==
    [risk_score |-> acc.risk_score + penalty,
     recommendations |-> Append(acc.recommendations, advice)]

Advise(acc, advice) ==
    [risk_score |-> acc.risk_score,
     recommendations |-> Append(acc.recommendations, advice)]

Penalize(acc, penalty) ==
    [risk_score |-> acc.risk_score + penalty,
     recommendations |-> acc.recommendations]

InitialScore == 0

\* Mutant: the list is created once and shared by the calls, as a
\* module-level list or a mutable default argument would be.
InitialRecommendations_Shared == recommendations

InitialRecommendations == << >>

Start == [risk_score |-> InitialScore, recommendations |-> InitialRecommendations]

\* Mutant: 25.0 still counted as healthy (<= in place of <).
BmiAssessment_OpenBelow(acc, b) ==
    IF b < 185 THEN
        Add(acc, 10, "Your BMI is below normal. Consider consulting a nutritionist to reach a healthy weight.")
    ELSE IF 185 <= b /\ b <= 250 THEN
        Advise(acc, "Your BMI is in the healthy range. Maintain your current lifestyle!")
    ELSE IF 250 <= b /\ b < 300 THEN
        Add(acc, 15, "Your BMI indicates overweight. Regular exercise and balanced diet can help reduce health risks.")
    ELSE IF 300 <= b /\ b < 350 THEN
        Add(acc, 25, "Your BMI indicates obesity (Class I). Consult a healthcare provider for a weight management plan.")
    ELSE
        Add(acc, 35, "Your BMI indicates severe obesity. Medical supervision is strongly recommended for weight management.")

BmiAssessment(acc, b) ==
    IF b < 185 THEN
        Add(acc, 10, "Your BMI is below normal. Consider consulting a nutritionist to reach a healthy weight.")
    ELSE IF 185 <= b /\ b < 250 THEN
        Advise(acc, "Your BMI is in the healthy range. Maintain your current lifestyle!")
    ELSE IF 250 <= b /\ b < 300 THEN
        Add(acc, 15, "Your BMI indicates overweight. Regular exercise and balanced diet can help reduce health risks.")
    ELSE IF 300 <= b /\ b < 350 THEN
        Add(acc, 25, "Your BMI indicates obesity (Class I). Consult a healthcare provider for a weight management plan.")
    ELSE
        Add(acc, 35, "Your BMI indicates severe obesity. Medical supervision is strongly recommended for weight management.")

\* Mutant: 120 still counted as optimal (<= in place of <).
BpAssessment_OpenBelow(acc, p) ==
    IF p < 90 THEN
        Add(acc, 10, "Your blood pressure is low. Monitor for symptoms of hypotension and consult a doctor if concerned.")
    ELSE IF 90 <= p /\ p <= 120 THEN
        Advise(acc, "Your blood pressure is optimal. Keep up the good work!")
    ELSE IF 120 <= p /\ p < 130 THEN
        Add(acc, 5, "Your blood pressure is elevated. Lifestyle modifications may help prevent hypertension.")
    ELSE IF 130 <= p /\ p < 140 THEN
        Add(acc, 15, "Your blood pressure indicates Stage 1 hypertension. Consult your doctor about management strategies.")
    ELSE IF 140 <= p /\ p < 180 THEN
        Add(acc, 25, "Your blood pressure indicates Stage 2 hypertension. Medical treatment is likely needed.")
    ELSE
        Add(acc, 40, "Your blood pressure is dangerously high. Seek immediate medical attention!")

BpAssessment(acc, p) ==
    IF p < 90 THEN
        Add(acc, 10, "Your blood pressure is low. Monitor for symptoms of hypotension and consult a doctor if concerned.")
    ELSE IF 90 <= p /\ p < 120 THEN
        Advise(acc, "Your blood pressure is optimal. Keep up the good work!")
    ELSE IF 120 <= p /\ p < 130 THEN
        Add(acc, 5, "Your blood pressure is elevated. Lifestyle modifications may help prevent hypertension.")
    ELSE IF 130 <= p /\ p < 140 THEN
        Add(acc, 15, "Your blood pressure indicates Stage 1 hypertension. Consult your doctor about management strategies.")
    ELSE IF 140 <= p /\ p < 180 THEN
        Add(acc, 25, "Your blood pressure indicates Stage 2 hypertension. Medical treatment is likely needed.")
    ELSE
        Add(acc, 40, "Your blood pressure is dangerously high. Seek immediate medical attention!")

\* Mutant: a desirable cholesterol level is rewarded, taking 0.5 off the score.
CholesterolAssessment_Rewarding(acc, c) ==
    IF c < 200 THEN
        Add(acc, -5, "Your cholesterol level is desirable. Continue heart-healthy habits!")
    ELSE IF 200 <= c /\ c < 240 THEN
        Add(acc, 15, "Your cholesterol is borderline high. Consider dietary changes to reduce cardiovascular risk.")
    ELSE
        Add(acc, 25, "Your cholesterol is high. Consult your doctor about medication and lifestyle changes.")

CholesterolAssessment(acc, c) ==
    IF c < 200 THEN
        Advise(acc, "Your cholesterol level is desirable. Continue heart-healthy habits!")
    ELSE IF 200 <= c /\ c < 240 THEN
        Add(acc, 15, "Your cholesterol is borderline high. Consider dietary changes to reduce cardiovascular risk.")
    ELSE
        Add(acc, 25, "Your cholesterol is high. Consult your doctor about medication and lifestyle changes.")

\* Mutant: the penalties of prediabetes and of the diabetes range exchanged.
GlucoseAssessment_Exchanged(acc, g) ==
    IF g < 70 THEN
        Add(acc, 10, "Your glucose level is low. Monitor for hypoglycemia symptoms and consult your doctor.")
    ELSE IF 70 <= g /\ g < 100 THEN
        Advise(acc, "Your fasting glucose is normal. Maintain a balanced diet!")
    ELSE IF 100 <= g /\ g < 126 THEN
        Add(acc, 30, "Your glucose indicates prediabetes. Lifestyle changes can prevent type 2 diabetes.")
    ELSE
        Add(acc, 15, "Your glucose level suggests diabetes. Consult your doctor for proper diagnosis and management.")

GlucoseAssessment(acc, g) ==
    IF g < 70 THEN
        Add(acc, 10, "Your glucose level is low. Monitor for hypoglycemia symptoms and consult your doctor.")
    ELSE IF 70 <= g /\ g < 100 THEN
        Advise(acc, "Your fasting glucose is normal. Maintain a balanced diet!")
    ELSE IF 100 <= g /\ g < 126 THEN
        Add(acc, 15, "Your glucose indicates prediabetes. Lifestyle changes can prevent type 2 diabetes.")
    ELSE
        Add(acc, 30, "Your glucose level suggests diabetes. Consult your doctor for proper diagnosis and management.")

\* Mutant: the screening advice is given from 30 on, not from 45 on.
AgeFactor_AdvisingFrom30(acc, a) ==
    IF a < 30 THEN
        acc
    ELSE IF 30 <= a /\ a < 45 THEN
        Add(acc, 3, "Age is a risk factor. Regular health screenings become increasingly important.")
    ELSE IF 45 <= a /\ a < 60 THEN
        Add(acc, 8, "Age is a risk factor. Regular health screenings become increasingly important.")
    ELSE
        Add(acc, 12, "At your age, regular medical check-ups and monitoring are essential.")

AgeFactor(acc, a) ==
    IF a < 30 THEN
        acc
    ELSE IF 30 <= a /\ a < 45 THEN
        Penalize(acc, 3)
    ELSE IF 45 <= a /\ a < 60 THEN
        Add(acc, 8, "Age is a risk factor. Regular health screenings become increasingly important.")
    ELSE
        Add(acc, 12, "At your age, regular medical check-ups and monitoring are essential.")

\* Mutant: the status compared without regard to the case of its first
\* letter.
SmokingFactor_CaseBlind(acc, s) ==
    IF s \in {"Current smoker", "current smoker"} THEN
        Add(acc, 20, "Smoking significantly increases health risks. Consider a smoking cessation program.")
    ELSE IF s \in {"Former smoker", "former smoker"} THEN
        Add(acc, 5, "Great job quitting smoking! Continue to avoid tobacco products.")
    ELSE
        Advise(acc, "Excellent! Staying smoke-free is one of the best health decisions.")

SmokingFactor(acc, s) ==
    IF s = "Current smoker" THEN
        Add(acc, 20, "Smoking significantly increases health risks. Consider a smoking cessation program.")
    ELSE IF s = "Former smoker" THEN
        Add(acc, 5, "Great job quitting smoking! Continue to avoid tobacco products.")
    ELSE
        Advise(acc, "Excellent! Staying smoke-free is one of the best health decisions.")

\* Mutant: the general lines left out.
GeneralRecommendations_Missing(acc) == acc

\* Mutant: the sleep and the stress lines appended in the other order.
GeneralRecommendations_Reordered(acc) ==
    Advise(Advise(Advise(Advise(Advise(acc,
        "Engage in at least 150 minutes of moderate aerobic activity per week."),
        "Stay hydrated and maintain a balanced diet rich in fruits, vegetables, and whole grains."),
        "Manage stress through relaxation techniques, meditation, or hobbies."),
        "Get 7-9 hours of quality sleep each night."),
        "Schedule regular check-ups with your healthcare provider.")

GeneralRecommendations(acc) ==
    Advise(Advise(Advise(Advise(Advise(acc,
        "Engage in at least 150 minutes of moderate aerobic activity per week."),
        "Stay hydrated and maintain a balanced diet rich in fruits, vegetables, and whole grains."),
        "Get 7-9 hours of quality sleep each night."),
        "Manage stress through relaxation techniques, meditation, or hobbies."),
        "Schedule regular check-ups with your healthcare provider.")

\* Mutant: the thresholds compared with > in place of >=.
RiskLevel_Strict(risk_score) ==
    IF risk_score > 70 THEN [risk_level |-> "High Risk", color |-> "#E74C3C"]
    ELSE IF risk_score > 40 THEN [risk_level |-> "Moderate Risk", color |-> "#F39C12"]
    ELSE IF risk_score > 20 THEN [risk_level |-> "Low-Moderate Risk", color |-> "#F9A825"]
    ELSE [risk_level |-> "Low Risk", color |-> "#27AE60"]

\* Mutant: the thresholds checked low to high with strict tests on both
\* sides of 7, so that a score of exactly 7.0 falls through to the last
\* branch.
RiskLevel_Unordered(risk_score) ==
    IF risk_score < 20 THEN [risk_level |-> "Low Risk", color |-> "#27AE60"]
    ELSE IF risk_score < 40 THEN [risk_level |-> "Low-Moderate Risk", color |-> "#F9A825"]
    ELSE IF risk_score > 70 THEN [risk_level |-> "High Risk", color |-> "#E74C3C"]
    ELSE IF risk_score < 70 THEN [risk_level |-> "Moderate Risk", color |-> "#F39C12"]
    ELSE [risk_level |-> "Low Risk", color |-> "#27AE60"]

RiskLevel(risk_score) ==
    IF risk_score >= 70 THEN [risk_level |-> "High Risk", color |-> "#E74C3C"]
    ELSE IF risk_score >= 40 THEN [risk_level |-> "Moderate Risk", color |-> "#F39C12"]
    ELSE IF risk_score >= 20 THEN [risk_level |-> "Low-Moderate Risk", color |-> "#F9A825"]
    ELSE [risk_level |-> "Low Risk", color |-> "#27AE60"]

\* Mutant: the smoking section placed before the age section.
calculate_risk_SmokingBeforeAge(a, b, p, c, g, s) ==
    LET acc == GeneralRecommendations(
                 AgeFactor(
                   SmokingFactor(
                     GlucoseAssessment(
                       CholesterolAssessment(
                         BpAssessment(
                           BmiAssessment(Start, b), p), c), g), s), a))
        lvl == RiskLevel(acc.risk_score)
    IN  [risk_level |-> lvl.risk_level,
         color |-> lvl.color,
         risk_score |-> acc.risk_score,
         recommendations |-> acc.recommendations]

calculate_risk(a, b, p, c, g, s) ==
    LET acc == GeneralRecommendations(
                 SmokingFactor(
                   AgeFactor(
                     GlucoseAssessment(
                       CholesterolAssessment(
                         BpAssessment(
                           BmiAssessment(Start, b), p), c), g), a), s))
        lvl == RiskLevel(acc.risk_score)
    IN  [risk_level |-> lvl.risk_level,
         color |-> lvl.color,
         risk_score |-> acc.risk_score,
         recommendations |-> acc.recommendations]

(***************************************************************************)
(* The values the form is filled with: the ends of each range, every       *)
(* threshold and the value just below it.                                  *)
(***************************************************************************)
Around(cuts, lo, hi) == {lo, hi} \cup cuts \cup {t - 1 : t \in cuts}

AgeValues == Around(AgeCuts, AgeMin, AgeMax)
BmiValues == Around(BmiCuts, BmiMin, BmiMax)
BpValues == Around(BpCuts, BpMin, BpMax)
CholesterolValues == Around(CholesterolCuts, CholesterolMin, CholesterolMax)
GlucoseValues == Around(GlucoseCuts, GlucoseMin, GlucoseMax)
SmokingValues == Range(SmokingOptions)

NoCall == [made |-> FALSE]

TypeOK ==
    /\ age \in AgeMin..AgeMax
    /\ bmi \in BmiMin..BmiMax
    /\ bp \in BpMin..BpMax
    /\ cholesterol \in CholesterolMin..CholesterolMax
    /\ glucose \in GlucoseMin..GlucoseMax
    /\ smoking \in SmokingValues
    /\ pc \in {"form", "done", "pdf_title", "pdf_summary", "pdf_metrics",
              "pdf_recommendations", "pdf_disclaimer", "pdf_output",
              "returned", "shown", "categorized", "categorized_bmi",
              "categorized_cholesterol", "categorized_glucose", "interpreted"}

(***************************************************************************)
(* The risk form: the user fills the six widgets and submits; the handler  *)
(* calls calculate_risk with the widgets' values and shows what it returns.*)
(***************************************************************************)
\* The values the form shows before the user touches it.
AgeDefault == 30
BmiDefault == 250
BpDefault == 120
CholesterolDefault == 200
GlucoseDefault == 100
SmokingDefault == SmokingOptions[1]

\* The inputs of the three worked examples, the first being the defaults.
ExampleAges == {AgeDefault, 65, 25}
ExampleBmis == {BmiDefault, 380, 220}
ExampleBps == {BpDefault, 190, 110}
ExampleCholesterols == {CholesterolDefault, 260, 180}
ExampleGlucoses == {GlucoseDefault, 135, 85}

\* for i, rec in enumerate(recommendations, 1): st.info(f"{i}. {rec}")
OnScreen(recs) == [i \in 1..Len(recs) |-> ToString(i) \o ". " \o recs[i]]

\* No result on the page, and no invocation of calculate_risk besides the
\* form's.
NoResult ==
    /\ screen = << >>
    /\ interpretation = ""
    /\ frames = << >>
    /\ heap = << >>

\* Nothing of a report on the page.
NoReport ==
    /\ pdf = << >>
    /\ pdf_bytes = << >>
    /\ pdf_calls = 0
    /\ messages = << >>
    /\ download = FALSE

\* A rerun of the script draws the page anew.
ClearReport ==
    /\ pdf' = << >>
    /\ pdf_bytes' = << >>
    /\ pdf_calls' = 0
    /\ messages' = << >>
    /\ download' = FALSE

Init ==
    /\ \/ /\ age \in AgeValues
          /\ bmi \in BmiValues
          /\ bp \in BpValues
          /\ cholesterol \in CholesterolValues
          /\ glucose \in GlucoseValues
       \/ /\ age \in ExampleAges
          /\ bmi \in ExampleBmis
          /\ bp \in ExampleBps
          /\ cholesterol \in ExampleCholesterols
          /\ glucose \in ExampleGlucoses
    /\ smoking \in SmokingValues
    /\ pc = "form"
    /\ risk = ""
    /\ color = ""
    /\ score = InitialScore
    /\ recommendations = << >>
    /\ earlier = NoCall
    /\ NoReport
    /\ category = ""
    /\ NoResult

Submit ==
    /\ pc = "form"
    /\ LET r == calculate_risk(age, bmi, bp, cholesterol, glucose, smoking)
       IN  /\ risk' = r.risk_level
           /\ color' = r.color
           /\ score' = r.risk_score
           /\ recommendations' = r.recommendations
    /\ pc' = "done"
    /\ screen' = OnScreen(recommendations')
    /\ ClearReport
    /\ UNCHANGED <<age, bmi, bp, cholesterol, glucose, smoking, earlier, category,
                   interpretation, frames, heap>>

Next == Submit

Spec == Init /\ [][Next]_vars

(***************************************************************************)
(* A session of the form: every rerun of the script evaluates the form     *)
(* again, and a submission calls calculate_risk with the values the form   *)
(* then holds.  earlier records one call the session made before.          *)
(***************************************************************************)
CallRecord ==
    [made |-> TRUE, between |-> FALSE,
     age |-> age, bmi |-> bmi, bp |-> bp, cholesterol |-> cholesterol,
     glucose |-> glucose, smoking |-> smoking,
     risk |-> risk, color |-> color, score |-> score,
     recommendations |-> recommendations]

\* The user changes the form to (a, b, p, c, g, s) and submits it again.
Resubmit(a, b, p, c, g, s, e) ==
    /\ pc = "done"
    /\ age' = a /\ bmi' = b /\ bp' = p
    /\ cholesterol' = c /\ glucose' = g /\ smoking' = s
    /\ LET r == calculate_risk(a, b, p, c, g, s)
       IN  /\ risk' = r.risk_level
           /\ color' = r.color
           /\ score' = r.risk_score
           /\ recommendations' = r.recommendations
    /\ earlier' = e
    /\ pc' = "done"
    /\ screen' = OnScreen(recommendations')
    /\ ClearReport
    /\ UNCHANGED <<category, interpretation, frames, heap>>

(***************************************************************************)
(* Sessions that raise one factor at a time, one value per bucket: the     *)
(* lower end of each bucket.  earlier is the call before the raise.        *)
(***************************************************************************)
AgeFloors == {AgeMin} \cup AgeCuts
BmiFloors == {BmiMin} \cup BmiCuts
BpFloors == {BpMin} \cup BpCuts
CholesterolFloors == {CholesterolMin} \cup CholesterolCuts
GlucoseFloors == {GlucoseMin} \cup GlucoseCuts

\* Smoking statuses from the mildest on: the position in the form's list.
SmokingOrder(s) == CHOOSE i \in DOMAIN SmokingOptions : SmokingOptions[i] = s

InitRaise ==
    /\ age \in AgeFloors
    /\ bmi \in BmiFloors
    /\ bp \in BpFloors
    /\ cholesterol \in CholesterolFloors
    /\ glucose \in GlucoseFloors
    /\ smoking \in SmokingValues
    /\ pc = "form"
    /\ risk = ""
    /\ color = ""
    /\ score = InitialScore
    /\ recommendations = << >>
    /\ earlier = NoCall
    /\ NoReport
    /\ category = ""
    /\ NoResult

RaiseAge ==
    \E v \in AgeFloors :
        v > age /\ Resubmit(v, bmi, bp, cholesterol, glucose, smoking, CallRecord)

RaiseBmi ==
    \E v \in BmiFloors :
        v > bmi /\ Resubmit(age, v, bp, cholesterol, glucose, smoking, CallRecord)

RaiseBp ==
    \E v \in BpFloors :
        v > bp /\ Resubmit(age, bmi, v, cholesterol, glucose, smoking, CallRecord)

RaiseCholesterol ==
    \E v \in CholesterolFloors :
        v > cholesterol /\ Resubmit(age, bmi, bp, v, glucose, smoking, CallRecord)

RaiseGlucose ==
    \E v \in GlucoseFloors :
        v > glucose /\ Resubmit(age, bmi, bp, cholesterol, v, smoking, CallRecord)

RaiseSmoking ==
    \E v \in SmokingValues :
        /\ SmokingOrder(v) > SmokingOrder(smoking)
        /\ Resubmit(age, bmi, bp, cholesterol, glucose, v, CallRecord)

NextRaise ==
    \/ Submit
    \/ RaiseAge
    \/ RaiseBmi
    \/ RaiseBp
    \/ RaiseCholesterol
    \/ RaiseGlucose
    \/ RaiseSmoking

SpecRaise == InitRaise /\ [][NextRaise]_vars

(***************************************************************************)
(* Sessions that submit again and again, changing one field or none        *)
(* between two submissions.  earlier is any one call made before: the call *)
(* just made is remembered, or the remembered one is kept and the call     *)
(* just made becomes a call between it and the next.  The values per       *)
(* field put the scores below, on and above each of the thresholds 2, 4    *)
(* and 7.                                                                  *)
(***************************************************************************)
SessionAges == {29, 30}
SessionBmis == {185, 250, 350}
SessionBps == {90, 120, 180}
SessionCholesterols == {199, 200}
SessionGlucoses == {99, 100}
SessionSmokings == {"Non-smoker", "Current smoker"}

Memories ==
    {CallRecord} \cup (IF earlier.made THEN {[earlier EXCEPT !.between = TRUE]} ELSE {})

InitSession ==
    /\ age \in SessionAges
    /\ bmi \in SessionBmis
    /\ bp \in SessionBps
    /\ cholesterol \in SessionCholesterols
    /\ glucose \in SessionGlucoses
    /\ smoking \in SessionSmokings
    /\ pc = "form"
    /\ risk = ""
    /\ color = ""
    /\ score = InitialScore
    /\ recommendations = << >>
    /\ earlier = NoCall
    /\ NoReport
    /\ category = ""
    /\ NoResult

EditAge ==
    \E v \in SessionAges : \E e \in Memories :
        Resubmit(v, bmi, bp, cholesterol, glucose, smoking, e)

EditBmi ==
    \E v \in SessionBmis : \E e \in Memories :
        Resubmit(age, v, bp, cholesterol, glucose, smoking, e)

EditBp ==
    \E v \in SessionBps : \E e \in Memories :
        Resubmit(age, bmi, v, cholesterol, glucose, smoking, e)

EditCholesterol ==
    \E v \in SessionCholesterols : \E e \in Memories :
        Resubmit(age, bmi, bp, v, glucose, smoking, e)

EditGlucose ==
    \E v \in SessionGlucoses : \E e \in Memories :
        Resubmit(age, bmi, bp, cholesterol, v, smoking, e)

EditSmoking ==
    \E v \in SessionSmokings : \E e \in Memories :
        Resubmit(age, bmi, bp, cholesterol, glucose, v, e)

NextSession ==
    \/ Submit
    \/ EditAge
    \/ EditBmi
    \/ EditBp
    \/ EditCholesterol
    \/ EditGlucose
    \/ EditSmoking

SpecSession == InitSession /\ [][NextSession]_vars

(***************************************************************************)
(* The advisory strings each section of calculate_risk can append.         *)
(***************************************************************************)
BmiAdvisories ==
    {"Your BMI is below normal. Consider consulting a nutritionist to reach a healthy weight.",
     "Your BMI is in the healthy range. Maintain your current lifestyle!",
     "Your BMI indicates overweight. Regular exercise and balanced diet can help reduce health risks.",
     "Your BMI indicates obesity (Class I). Consult a healthcare provider for a weight management plan.",
     "Your BMI indicates severe obesity. Medical supervision is strongly recommended for weight management."}

BpAdvisories ==
    {"Your blood pressure is low. Monitor for symptoms of hypotension and consult a doctor if concerned.",
     "Your blood pressure is optimal. Keep up the good work!",
     "Your blood pressure is elevated. Lifestyle modifications may help prevent hypertension.",
     "Your blood pressure indicates Stage 1 hypertension. Consult your doctor about management strategies.",
     "Your blood pressure indicates Stage 2 hypertension. Medical treatment is likely needed.",
     "Your blood pressure is dangerously high. Seek immediate medical attention!"}

CholesterolAdvisories ==
    {"Your cholesterol level is desirable. Continue heart-healthy habits!",
     "Your cholesterol is borderline high. Consider dietary changes to reduce cardiovascular risk.",
     "Your cholesterol is high. Consult your doctor about medication and lifestyle changes."}

GlucoseAdvisories ==
    {"Your glucose level is low. Monitor for hypoglycemia symptoms and consult your doctor.",
     "Your fasting glucose is normal. Maintain a balanced diet!",
     "Your glucose indicates prediabetes. Lifestyle changes can prevent type 2 diabetes.",
     "Your glucose level suggests diabetes. Consult your doctor for proper diagnosis and management."}

AgeAdvisories ==
    {"Age is a risk factor. Regular health screenings become increasingly important.",
     "At your age, regular medical check-ups and monitoring are essential."}

SmokingAdvisories ==
    {"Smoking significantly increases health risks. Consider a smoking cessation program.",
     "Great job quitting smoking! Continue to avoid tobacco products.",
     "Excellent! Staying smoke-free is one of the best health decisions."}

GeneralWellness ==
    <<"Engage in at least 150 minutes of moderate aerobic activity per week.",
      "Stay hydrated and maintain a balanced diet rich in fruits, vegetables, and whole grains.",
      "Get 7-9 hours of quality sleep each night.",
      "Manage stress through relaxation techniques, meditation, or hobbies.",
      "Schedule regular check-ups with your healthcare provider.">>

(***************************************************************************)
(* The bucket table of the specification: rows <<lo, hi, penalty>>, a row  *)
(* covering lo <= v < hi, penalties in tenths.                             *)
(***************************************************************************)
BmiTable == <<<<BmiMin, 185, 10>>, <<185, 250, 0>>, <<250, 300, 15>>,
              <<300, 350, 25>>, <<350, BmiMax + 1, 35>>>>
BpTable == <<<<BpMin, 90, 10>>, <<90, 120, 0>>, <<120, 130, 5>>, <<130, 140, 15>>,
             <<140, 180, 25>>, <<180, BpMax + 1, 40>>>>
CholesterolTable == <<<<CholesterolMin, 200, 0>>, <<200, 240, 15>>,
                      <<240, CholesterolMax + 1, 25>>>>
GlucoseTable == <<<<GlucoseMin, 70, 10>>, <<70, 100, 0>>, <<100, 126, 15>>,
                  <<126, GlucoseMax + 1, 30>>>>
AgeTable == <<<<AgeMin, 30, 0>>, <<30, 45, 3>>, <<45, 60, 8>>, <<60, AgeMax + 1, 12>>>>
SmokingTable == [s \in SmokingValues |->
                   IF s = "Current smoker" THEN 20
                   ELSE IF s = "Former smoker" THEN 5 ELSE 0]

\* The index of the row of the table that v falls in.
Bucket(table, v) ==
    CHOOSE i \in DOMAIN table : table[i][1] <= v /\ v < table[i][2]

Lookup(table, v) == table[Bucket(table, v)][3]

TableScore(a, b, p, c, g, s) ==
    Lookup(BmiTable, b) + Lookup(BpTable, p) + Lookup(CholesterolTable, c)
    + Lookup(GlucoseTable, g) + Lookup(AgeTable, a) + SmokingTable[s]

\* C1: for every input of the domain the score calculate_risk returns is the
\* sum of the six per-factor penalties of the bucket table, each looked up
\* from its own factor alone.
C1_ScoreIsTableSum ==
    pc = "done" =>
        score = TableScore(age, bmi, bp, cholesterol, glucose, smoking)

C1_Witness ==
    /\ pc = "done"
    /\ bmi = 349 /\ bp = 139 /\ cholesterol = 239 /\ glucose = 125
    /\ age = 59 /\ smoking = "Former smoker"
    /\ score = 83

\* C2: tier and color follow from the final score alone, checked high to
\* low: >= 7 High Risk #E74C3C, >= 4 Moderate Risk #F39C12, >= 2
\* Low-Moderate Risk #F9A825, else Low Risk #27AE60; one color per tier.
C2_TierFromScore ==
    pc = "done" =>
        /\ score >= 70 => risk = "High Risk"
        /\ (score >= 40 /\ score < 70) => risk = "Moderate Risk"
        /\ (score >= 20 /\ score < 40) => risk = "Low-Moderate Risk"
        /\ score < 20 => risk = "Low Risk"
        /\ risk = "High Risk" <=> color = "#E74C3C"
        /\ risk = "Moderate Risk" <=> color = "#F39C12"
        /\ risk = "Low-Moderate Risk" <=> color = "#F9A825"
        /\ risk = "Low Risk" <=> color = "#27AE60"

C2_Witness ==
    pc = "done" /\ score = 70 /\ risk = "High Risk" /\ color = "#E74C3C"

\* The penalty one section of the code adds when it runs on its own.
BmiPenalty(b) == BmiAssessment(Start, b).risk_score - Start.risk_score
BpPenalty(p) == BpAssessment(Start, p).risk_score - Start.risk_score
CholesterolPenalty(c) == CholesterolAssessment(Start, c).risk_score - Start.risk_score
GlucosePenalty(g) == GlucoseAssessment(Start, g).risk_score - Start.risk_score
AgePenalty(a) == AgeFactor(Start, a).risk_score - Start.risk_score
SmokingPenalty(s) == SmokingFactor(Start, s).risk_score - Start.risk_score

\* What the returned score holds beyond the penalties of the other sections.
ShareOfBmi == score - (BpPenalty(bp) + CholesterolPenalty(cholesterol)
                       + GlucosePenalty(glucose) + AgePenalty(age) + SmokingPenalty(smoking))
ShareOfBp == score - (BmiPenalty(bmi) + CholesterolPenalty(cholesterol)
                      + GlucosePenalty(glucose) + AgePenalty(age) + SmokingPenalty(smoking))
ShareOfCholesterol == score - (BmiPenalty(bmi) + BpPenalty(bp)
                               + GlucosePenalty(glucose) + AgePenalty(age) + SmokingPenalty(smoking))
ShareOfGlucose == score - (BmiPenalty(bmi) + BpPenalty(bp) + CholesterolPenalty(cholesterol)
                           + AgePenalty(age) + SmokingPenalty(smoking))
ShareOfAge == score - (BmiPenalty(bmi) + BpPenalty(bp) + CholesterolPenalty(cholesterol)
                       + GlucosePenalty(glucose) + SmokingPenalty(smoking))

\* C5: buckets are closed on the lower end: bmi 25.0 adds 1.5, bp 120 adds
\* 0.5, cholesterol 200 adds 1.5, glucose 100 adds 1.5, age 45 adds 0.8 and
\* age 30 adds 0.3, and the value just below each of them adds what the
\* lower bucket adds.
C5_BoundariesClosedBelow ==
    pc = "done" =>
        /\ bmi = 250 => ShareOfBmi = 15
        /\ bmi = 249 => ShareOfBmi = 0
        /\ bp = 120 => ShareOfBp = 5
        /\ bp = 119 => ShareOfBp = 0
        /\ cholesterol = 200 => ShareOfCholesterol = 15
        /\ cholesterol = 199 => ShareOfCholesterol = 0
        /\ glucose = 100 => ShareOfGlucose = 15
        /\ glucose = 99 => ShareOfGlucose = 0
        /\ age = 45 => ShareOfAge = 8
        /\ age = 44 => ShareOfAge = 3
        /\ age = 30 => ShareOfAge = 3
        /\ age = 29 => ShareOfAge = 0

C5_Witness ==
    /\ pc = "done"
    /\ bmi = 250 /\ bp = 120 /\ cholesterol = 200 /\ glucose = 100 /\ age = 45
    /\ smoking = "Non-smoker"
    /\ score = 58

\* C6: the score calculate_risk returns is never below 0.0.
C6_ScoreNonNegative ==
    pc = "done" => score >= 0

C6_Witness ==
    /\ pc = "done"
    /\ score = 0
    /\ bmi = 185 /\ bp = 90 /\ cholesterol = 199 /\ glucose = 70 /\ age = 29

\* C8: the returned list ends with the five general-wellness strings in
\* their fixed order, and none of the five appears earlier in the list.
C8_EndsWithGeneralWellness ==
    pc = "done" =>
        LET n == Len(recommendations)
        IN  /\ n >= 5
            /\ SubSeq(recommendations, n - 4, n) = GeneralWellness
            /\ \A i \in 1..(n - 5) : recommendations[i] \notin Range(GeneralWellness)

C8_Witness ==
    /\ pc = "done"
    /\ Len(recommendations) = 11
    /\ recommendations[7] = "Engage in at least 150 minutes of moderate aerobic activity per week."
    /\ recommendations[11] = "Schedule regular check-ups with your healthcare provider."

\* The place of an advisory in the order BMI, blood pressure, cholesterol,
\* glucose, age, smoking, general wellness.
Place(rec) ==
    IF rec \in BmiAdvisories THEN 1
    ELSE IF rec \in BpAdvisories THEN 2
    ELSE IF rec \in CholesterolAdvisories THEN 3
    ELSE IF rec \in GlucoseAdvisories THEN 4
    ELSE IF rec \in AgeAdvisories THEN 5
    ELSE IF rec \in SmokingAdvisories THEN 6
    ELSE IF rec \in Range(GeneralWellness) THEN 7
    ELSE 0

\* C9: the factor advisories come in the order BMI, blood pressure,
\* cholesterol, glucose, age, smoking, all of them before the general
\* wellness lines, and every smoking status, Non-smoker too, gets its
\* smoking advisory.
C9_FactorOrder ==
    pc = "done" =>
        LET n == Len(recommendations)
        IN  /\ \A i \in 1..n : Place(recommendations[i]) > 0
            /\ \A i \in 1..n : \A j \in 1..n :
                   (i < j /\ Place(recommendations[j]) < 7)
                       => Place(recommendations[i]) < Place(recommendations[j])
            /\ \E i \in 1..n : recommendations[i] \in SmokingAdvisories

C9_Witness ==
    /\ pc = "done"
    /\ smoking = "Non-smoker"
    /\ age = 60
    /\ recommendations[5] = "At your age, regular medical check-ups and monitoring are essential."
    /\ recommendations[6] = "Excellent! Staying smoke-free is one of the best health decisions."

Count(advisories) ==
    Cardinality({i \in DOMAIN recommendations : recommendations[i] \in advisories})

\* C10: BMI, blood pressure, cholesterol and glucose each append exactly
\* one string whatever the bucket, the zero-penalty buckets included; age
\* appends none below 45 and exactly one from 45 on.
C10_OneAdvisoryPerFactor ==
    pc = "done" =>
        /\ Count(BmiAdvisories) = 1
        /\ Count(BpAdvisories) = 1
        /\ Count(CholesterolAdvisories) = 1
        /\ Count(GlucoseAdvisories) = 1
        /\ Count(AgeAdvisories) = (IF age < 45 THEN 0 ELSE 1)
        /\ Count(SmokingAdvisories) <= 1

C10_Witness ==
    /\ pc = "done"
    /\ age = 44 /\ Count(AgeAdvisories) = 0
    /\ bmi = 185 /\ bp = 90 /\ cholesterol = 199 /\ glucose = 70
    /\ Count(BmiAdvisories) = 1 /\ Count(BpAdvisories) = 1
    /\ Count(CholesterolAdvisories) = 1 /\ Count(GlucoseAdvisories) = 1

\* Tiers from the mildest on.
Severity(tier) ==
    IF tier = "Low Risk" THEN 1
    ELSE IF tier = "Low-Moderate Risk" THEN 2
    ELSE IF tier = "Moderate Risk" THEN 3
    ELSE 4

\* C3, as stated: raising one factor into a higher bucket, the other five
\* held, never lowers the score nor the severity of the tier.
C3_RaiseNeverLowers ==
    (pc = "done" /\ earlier.made) =>
        /\ score >= earlier.score
        /\ Severity(risk) >= Severity(earlier.risk)

\* The raise took BMI, blood pressure or glucose out of its lowest bucket
\* (penalty 1.0) into a bucket of a smaller penalty.
LeavesLowBucket ==
    \/ earlier.bmi < 185 /\ 185 <= bmi /\ bmi < 250
    \/ earlier.bp < 90 /\ 90 <= bp /\ bp < 130
    \/ earlier.glucose < 70 /\ 70 <= glucose /\ glucose < 100

\* C3, amended: raising one factor into a higher bucket, the other five
\* held, never lowers the score nor the severity of the tier, unless the
\* raise takes BMI from below 18.5 into [18.5,25), blood pressure from below
\* 90 into [90,130) or glucose from below 70 into [70,100); those raises
\* lower the score.
C3_RaiseNeverLowersAboveLowBucket ==
    (pc = "done" /\ earlier.made) =>
        IF LeavesLowBucket
        THEN score < earlier.score
        ELSE /\ score >= earlier.score
             /\ Severity(risk) >= Severity(earlier.risk)

C3_Witness ==
    /\ pc = "done"
    /\ earlier.made
    /\ earlier.bmi = 185 /\ bmi = 250
    /\ ~LeavesLowBucket
    /\ score = earlier.score + 15
    /\ earlier.risk = "Low Risk" /\ risk = "Low-Moderate Risk"

\* C4: the tier is a monotonic function of the score: of two calls, the one
\* with the lower or equal score has the tier that is not more severe, and
\* equal scores have equal tiers.
C4_TierMonotonicInScore ==
    (pc = "done" /\ earlier.made) =>
        /\ earlier.score <= score => Severity(earlier.risk) <= Severity(risk)
        /\ score <= earlier.score => Severity(risk) <= Severity(earlier.risk)
        /\ earlier.score = score => earlier.risk = risk

C4_Witness ==
    /\ pc = "done"
    /\ earlier.made
    /\ earlier.score = 68 /\ score = 70
    /\ earlier.risk = "Moderate Risk" /\ risk = "High Risk"

\* C7: two calls with the same six arguments return the same tier, color,
\* score and recommendations, whatever calls were made before or between.
C7_Deterministic ==
    (/\ pc = "done"
     /\ earlier.made
     /\ <<earlier.age, earlier.bmi, earlier.bp, earlier.cholesterol,
          earlier.glucose, earlier.smoking>> = args) =>
        /\ risk = earlier.risk
        /\ color = earlier.color
        /\ score = earlier.score
        /\ recommendations = earlier.recommendations

C7_Witness ==
    /\ pc = "done"
    /\ earlier.made
    /\ earlier.between
    /\ <<earlier.age, earlier.bmi, earlier.bp, earlier.cholesterol,
         earlier.glucose, earlier.smoking>> = args
    /\ score = 53
    /\ recommendations = earlier.recommendations

\* C11: for every input of the domain the list calculate_risk returns has
\* at least 6 entries.
C11_AtLeastSixRecommendations ==
    pc = "done" => Len(recommendations) >= 6

C11_Witness ==
    /\ pc = "done"
    /\ age = 44
    /\ Len(recommendations) = 10

\* C15: the form's default values, age 30, bmi 25.0, bp 120, cholesterol
\* 200, glucose 100, Non-smoker, score 1.5 + 0.5 + 1.5 + 1.5 + 0.3 + 0 = 5.3,
\* tier Moderate Risk, color #F39C12.
C15_DefaultsExample ==
    /\ <<AgeDefault, BmiDefault, BpDefault, CholesterolDefault, GlucoseDefault, SmokingDefault>>
           = <<30, 250, 120, 200, 100, "Non-smoker">>
    /\ (pc = "done" /\ args = <<30, 250, 120, 200, 100, "Non-smoker">>) =>
           /\ score = 15 + 5 + 15 + 15 + 3 + 0
           /\ score = 53
           /\ risk = "Moderate Risk"
           /\ color = "#F39C12"

C15_Witness ==
    /\ pc = "done"
    /\ args = <<AgeDefault, BmiDefault, BpDefault, CholesterolDefault, GlucoseDefault, SmokingDefault>>
    /\ score = 53
    /\ risk = "Moderate Risk"

\* C16: age 65, bmi 38.0, bp 190, cholesterol 260, glucose 135, Current
\* smoker score 3.5 + 4.0 + 2.5 + 3.0 + 1.2 + 2.0 = 16.2, tier High Risk,
\* and no input of the domain scores more than 16.2.
C16_HighestExample ==
    pc = "done" =>
        /\ args = <<65, 380, 190, 260, 135, "Current smoker">> =>
               /\ score = 35 + 40 + 25 + 30 + 12 + 20
               /\ score = 162
               /\ risk = "High Risk"
        /\ score <= 162

C16_Witness ==
    /\ pc = "done"
    /\ args = <<65, 380, 190, 260, 135, "Current smoker">>
    /\ score = 162
    /\ risk = "High Risk"

\* C17: age 25, bmi 22.0, bp 110, cholesterol 180, glucose 85, Non-smoker
\* collect no penalty: score 0.0, tier Low Risk, color #27AE60.
C17_LowestExample ==
    (pc = "done" /\ args = <<25, 220, 110, 180, 85, "Non-smoker">>) =>
        /\ score = 0
        /\ risk = "Low Risk"
        /\ color = "#27AE60"

C17_Witness ==
    /\ pc = "done"
    /\ args = <<25, 220, 110, 180, 85, "Non-smoker">>
    /\ score = 0
    /\ risk = "Low Risk"
    /\ color = "#27AE60"

(***************************************************************************)
(* generate_pdf.  The document under construction, pdf, is the sequence   *)
(* of the text cells written so far, each with the text color in force    *)
(* when it was written; pdf_bytes is what generate_pdf returned, the      *)
(* cells that the returned bytes encode.  Fonts, rules and spacing carry  *)
(* no text and are left out, and so is the clock reading that follows     *)
(* "Generated: ".                                                         *)
(***************************************************************************)
Cell(kind, text, rgb) == [kind |-> kind, text |-> text, rgb |-> rgb]

HeadingColor == <<44, 62, 80>>
NoteColor == <<100, 100, 100>>
FooterColor == <<150, 150, 150>>
HighColor == <<231, 76, 60>>
ModerateColor == <<243, 156, 18>>
LowColor == <<39, 174, 96>>

\* Python's  needle in hay  for strings.
Contains(needle, hay) ==
    \E i \in 1..(Len(hay) - Len(needle) + 1) :
        SubSeq(hay, i, i + Len(needle) - 1) = needle

\* The tier is matched by equality with one tier string instead of by
\* substring.
RiskTextColor_ExactModerate(r) ==
    IF r = "High Risk" THEN HighColor
    ELSE IF r = "Moderate Risk" THEN ModerateColor
    ELSE LowColor

RiskTextColor(r) ==
    IF Contains("High", r) THEN HighColor
    ELSE IF Contains("Moderate", r) THEN ModerateColor
    ELSE LowColor

\* f"{x:.2f}" and f"{x:.1f}" of a number held in tenths.
Fixed2(tenths) == ToString(tenths \div 10) \o "." \o ToString(tenths % 10) \o "0"
Fixed1(tenths) == ToString(tenths \div 10) \o "." \o ToString(tenths % 10)

\* The score is cut off at the 10 of the label.
ScoreText_Clamped(s) == Fixed2(IF s > 100 THEN 100 ELSE s) \o " / 10"

ScoreText(s) == Fixed2(s) \o " / 10"

TitleSection ==
    << Cell("title", "Health Risk Assessment Report", HeadingColor),
       Cell("date", "Generated: ", NoteColor) >>

SummarySection(r, s) ==
    << Cell("heading", "Risk Assessment Summary", HeadingColor),
       Cell("label", "Risk Level:", HeadingColor),
       Cell("risk", r, RiskTextColor(r)),
       Cell("label", "Risk Score:", HeadingColor),
       Cell("score", ScoreText(s), HeadingColor) >>

MetricsSection(a, b, p, c, g) ==
    << Cell("heading", "Your Health Metrics", HeadingColor),
       Cell("label", "Age:", HeadingColor),
       Cell("metric", ToString(a) \o " years", HeadingColor),
       Cell("label", "Body Mass Index (BMI):", HeadingColor),
       Cell("metric", Fixed1(b) \o " kg/m2", HeadingColor),
       Cell("label", "Blood Pressure (Systolic):", HeadingColor),
       Cell("metric", ToString(p) \o " mmHg", HeadingColor),
       Cell("label", "Total Cholesterol:", HeadingColor),
       Cell("metric", ToString(c) \o " mg/dL", HeadingColor),
       Cell("label", "Fasting Glucose:", HeadingColor),
       Cell("metric", ToString(g) \o " mg/dL", HeadingColor) >>

ListLimit == 10

\* The whole list is printed.
Listed_All(recs) == recs

\* recommendations[:10]
Listed(recs) == SubSeq(recs, 1, IF Len(recs) < ListLimit THEN Len(recs) ELSE ListLimit)

\* enumerate(..., 1) and f"{i}. {rec}"
Numbered(recs) ==
    [i \in 1..Len(recs) |-> Cell("recommendation", ToString(i) \o ". " \o recs[i], HeadingColor)]

RecommendationsSection(recs) ==
    << Cell("heading", "Personalized Recommendations", HeadingColor) >>
        \o Numbered(Listed(recs))

Disclaimer ==
    "DISCLAIMER: This report is generated for educational and informational purposes only. "
    \o "It is NOT intended to be a substitute for professional medical advice, diagnosis, or treatment. "
    \o "Always seek the advice of your physician or other qualified health provider with any questions "
    \o "you may have regarding a medical condition. Never disregard professional medical advice or "
    \o "delay in seeking it because of something you have read in this report."

ClosingSection ==
    << Cell("disclaimer", Disclaimer, NoteColor),
       Cell("footer", "Designed by smartcare healt care analysis", FooterColor) >>

\* The document of a call that runs to its end.
Document(r, s, a, b, p, c, g, recs) ==
    TitleSection \o SummarySection(r, s) \o MetricsSection(a, b, p, c, g)
        \o RecommendationsSection(recs) \o ClosingSection

PdfSteps ==
    {"pdf_title", "pdf_summary", "pdf_metrics", "pdf_recommendations",
     "pdf_disclaimer", "pdf_output"}

ErrorGenerating == "Error generating PDF: "
FailedToGenerate == "Failed to generate PDF report."

\* What is written so far is handed back.
ReturnedOnFault_Partial == pdf

ReturnedOnFault == << >>

\* The download is offered whatever came back.
HasPdf_Always(b) == TRUE

\* pdf_bytes and len(pdf_bytes) > 0
HasPdf(b) == b /= << >> /\ Len(b) > 0

(***************************************************************************)
(* The report of one submission: show_risk_simulation calls generate_pdf, *)
(* generate_pdf writes the document section by section, any section may   *)
(* raise, and the caller tests what came back.  Inputs are the lower end  *)
(* of each bucket.                                                        *)
(***************************************************************************)
InitReport ==
    /\ age \in AgeFloors
    /\ bmi \in BmiFloors
    /\ bp \in BpFloors
    /\ cholesterol \in CholesterolFloors
    /\ glucose \in GlucoseFloors
    /\ smoking \in SmokingValues
    /\ pc = "form"
    /\ risk = ""
    /\ color = ""
    /\ score = InitialScore
    /\ recommendations = << >>
    /\ earlier = NoCall
    /\ NoReport
    /\ category = ""
    /\ NoResult

Result == <<risk, color, score, recommendations>>

\* A section of the body of generate_pdf's try block.
Write(from, section, to) ==
    /\ pc = from
    /\ pdf' = pdf \o section
    /\ pc' = to
    /\ UNCHANGED <<args, Result, screen, interpretation, frames, heap, earlier, pdf_bytes, pdf_calls, messages, download, category>>

CallGeneratePdf ==
    /\ pc = "done"
    /\ pdf_calls' = pdf_calls + 1
    /\ pdf' = << >>
    /\ pc' = "pdf_title"
    /\ UNCHANGED <<args, Result, screen, interpretation, frames, heap, earlier, pdf_bytes, messages, download, category>>

PdfTitle == Write("pdf_title", TitleSection, "pdf_summary")

PdfSummary == Write("pdf_summary", SummarySection(risk, score), "pdf_metrics")

PdfMetrics ==
    Write("pdf_metrics", MetricsSection(age, bmi, bp, cholesterol, glucose),
          "pdf_recommendations")

PdfRecommendations ==
    Write("pdf_recommendations", RecommendationsSection(recommendations), "pdf_disclaimer")

PdfDisclaimer == Write("pdf_disclaimer", ClosingSection, "pdf_output")

PdfOutput ==
    /\ pc = "pdf_output"
    /\ pdf_bytes' = pdf
    /\ pc' = "returned"
    /\ UNCHANGED <<args, Result, screen, interpretation, frames, heap, earlier, pdf, pdf_calls, messages, download, category>>

\* A statement of the try block raises: the except clause reports the
\* error and returns.
PdfFault ==
    /\ pc \in PdfSteps
    /\ messages' = Append(messages, ErrorGenerating)
    /\ pdf_bytes' = ReturnedOnFault
    /\ pdf' = << >>
    /\ pc' = "returned"
    /\ UNCHANGED <<args, Result, screen, interpretation, frames, heap, earlier, pdf_calls, download, category>>

OfferDownload ==
    /\ pc = "returned"
    /\ HasPdf(pdf_bytes)
    /\ download' = TRUE
    /\ pc' = "shown"
    /\ UNCHANGED <<args, Result, screen, interpretation, frames, heap, earlier, pdf, pdf_bytes, pdf_calls, messages, category>>

ReportFailure ==
    /\ pc = "returned"
    /\ ~HasPdf(pdf_bytes)
    /\ messages' = Append(messages, FailedToGenerate)
    /\ pc' = "shown"
    /\ UNCHANGED <<args, Result, screen, interpretation, frames, heap, earlier, pdf, pdf_bytes, pdf_calls, download, category>>

\* The page is run again without a submission: only the form is drawn.
FormAgain ==
    /\ pc = "shown"
    /\ pc' = "form"
    /\ risk' = ""
    /\ color' = ""
    /\ score' = InitialScore
    /\ recommendations' = << >>
    /\ screen' = << >>
    /\ ClearReport
    /\ UNCHANGED <<args, earlier, category, interpretation, frames, heap>>

NextReport ==
    \/ Submit
    \/ CallGeneratePdf
    \/ PdfTitle
    \/ PdfSummary
    \/ PdfMetrics
    \/ PdfRecommendations
    \/ PdfDisclaimer
    \/ PdfOutput
    \/ PdfFault
    \/ OfferDownload
    \/ ReportFailure
    \/ FormAgain

SpecReport == InitReport /\ [][NextReport]_vars

\* The cells of one kind in a document, in the order written.
Cells(doc, kind) == SelectSeq(doc, LAMBDA c : c.kind = kind)

\* The document as far as it can be read: what was returned, or else what
\* is written so far.
Written == IF pdf_bytes /= << >> THEN pdf_bytes ELSE pdf

\* C12: once generate_pdf has written the recommendations, the numbered
\* items are the first 10 entries of the recommendations argument (all of
\* them when there are fewer), numbered 1..k in their order; an eleventh
\* entry is not listed.
C12_ListsFirstTen ==
    (pc \in {"pdf_disclaimer", "pdf_output"} \/ pdf_bytes /= << >>) =>
        LET items == Cells(Written, "recommendation")
            n == Len(recommendations)
        IN  /\ Len(items) <= 10
            /\ Len(items) = IF n <= 10 THEN n ELSE 10
            /\ \A i \in 1..Len(items) :
                   items[i].text = ToString(i) \o ". " \o recommendations[i]

C12_Witness ==
    /\ pc = "returned"
    /\ Len(recommendations) = 11
    /\ Len(Cells(pdf_bytes, "recommendation")) = 10
    /\ Cells(pdf_bytes, "recommendation")[10].text = "10. " \o recommendations[10]

\* C13: what generate_pdf returns is the complete document, which is not
\* empty, or the empty byte sequence; when a step of rendering raised, the
\* error is reported and the empty sequence is returned, never the part of
\* the document written before the fault.
C13_CompleteOrEmpty ==
    pc \in {"returned", "shown"} =>
        LET complete == Document(risk, score, age, bmi, bp, cholesterol, glucose,
                                 recommendations)
            raised == ErrorGenerating \in Range(messages)
        IN  /\ complete /= << >>
            /\ pdf_bytes \in {complete, << >>}
            /\ raised => pdf_bytes = << >>
            /\ ~raised => pdf_bytes = complete

C13_Witness ==
    /\ pc = "returned"
    /\ messages = <<ErrorGenerating>>
    /\ pdf_bytes = << >>
    /\ pdf_calls = 1

C18_ScoreNotClamped ==
    /\ pc /= "form" => score = TableScore(age, bmi, bp, cholesterol, glucose, smoking)
    /\ \A i \in DOMAIN Written :
           Written[i].kind = "score" =>
               /\ Written[i].text
                      = ToString(score \div 10) \o "." \o ToString(score % 10) \o "0 / 10"
               /\ score = 125 => Written[i].text = "12.50 / 10"
               /\ score = 162 => Written[i].text = "16.20 / 10"
               /\ score = 0 => Written[i].text = "0.00 / 10"

C18_Witness ==
    /\ pc = "returned"
    /\ score = 125
    /\ score > 100
    /\ Len(Cells(pdf_bytes, "score")) = 1
    /\ Cells(pdf_bytes, "score")[1].text = "12.50 / 10"

\* C19: the risk-level line of the document carries the tier returned by
\* calculate_risk, in red (231,76,60) for High Risk, orange (243,156,18)
\* for Moderate Risk and for Low-Moderate Risk, green (39,174,96) for Low
\* Risk.
C19_TierColors ==
    \A i \in DOMAIN Written :
        Written[i].kind = "risk" =>
            /\ Written[i].text = risk
            /\ risk \in {"High Risk", "Moderate Risk", "Low-Moderate Risk", "Low Risk"}
            /\ risk = "High Risk" => Written[i].rgb = <<231, 76, 60>>
            /\ risk = "Moderate Risk" => Written[i].rgb = <<243, 156, 18>>
            /\ risk = "Low-Moderate Risk" => Written[i].rgb = <<243, 156, 18>>
            /\ risk = "Low Risk" => Written[i].rgb = <<39, 174, 96>>

C19_Witness ==
    /\ pc = "returned"
    /\ risk = "Low-Moderate Risk"
    /\ Len(Cells(pdf_bytes, "risk")) = 1
    /\ Cells(pdf_bytes, "risk")[1].rgb = <<243, 156, 18>>

(***************************************************************************)
(* The categorizers.  calculate_bp_category is a function of the pressure *)
(* alone; it is applied to the pressure of the form, every value of the   *)
(* range, after the submission has been scored.                           *)
(***************************************************************************)
\* 120 still counted as Normal (<= in place of <).
calculate_bp_category_Closed(p) ==
    IF p < 90 THEN "Low"
    ELSE IF p <= 120 THEN "Normal"
    ELSE IF p < 130 THEN "Elevated"
    ELSE IF p < 140 THEN "High (Stage 1)"
    ELSE IF p < 180 THEN "High (Stage 2)"
    ELSE "Hypertensive Crisis"

calculate_bp_category(p) ==
    IF p < 90 THEN "Low"
    ELSE IF p < 120 THEN "Normal"
    ELSE IF p < 130 THEN "Elevated"
    ELSE IF p < 140 THEN "High (Stage 1)"
    ELSE IF p < 180 THEN "High (Stage 2)"
    ELSE "Hypertensive Crisis"

\* The upper end of normal weight moved from 25 to 26.
calculate_bmi_category_Shifted(b) ==
    IF b < 185 THEN "Underweight"
    ELSE IF 185 <= b /\ b < 260 THEN "Normal Weight"
    ELSE IF 260 <= b /\ b < 300 THEN "Overweight"
    ELSE IF 300 <= b /\ b < 350 THEN "Obese (Class I)"
    ELSE IF 350 <= b /\ b < 400 THEN "Obese (Class II)"
    ELSE "Obese (Class III)"

calculate_bmi_category(b) ==
    IF b < 185 THEN "Underweight"
    ELSE IF 185 <= b /\ b < 250 THEN "Normal Weight"
    ELSE IF 250 <= b /\ b < 300 THEN "Overweight"
    ELSE IF 300 <= b /\ b < 350 THEN "Obese (Class I)"
    ELSE IF 350 <= b /\ b < 400 THEN "Obese (Class II)"
    ELSE "Obese (Class III)"

\* Borderline begins at 190 instead of 200.
calculate_cholesterol_category_Shifted(c) ==
    IF c < 190 THEN "Desirable"
    ELSE IF c < 240 THEN "Borderline High"
    ELSE "High"

calculate_cholesterol_category(c) ==
    IF c < 200 THEN "Desirable"
    ELSE IF c < 240 THEN "Borderline High"
    ELSE "High"

calculate_glucose_category(g) ==
    IF g < 70 THEN "Low"
    ELSE IF g < 100 THEN "Normal"
    ELSE IF g < 126 THEN "Prediabetes"
    ELSE "Diabetes Range"

\* One of the four categorized inputs takes every value of its range, the
\* others stay at the form's defaults.
InitCategory ==
    /\ age = AgeDefault
    /\ \/ /\ bmi \in BmiMin..BmiMax
          /\ bp = BpDefault
          /\ cholesterol = CholesterolDefault
          /\ glucose = GlucoseDefault
       \/ /\ bmi = BmiDefault
          /\ bp \in BpMin..BpMax
          /\ cholesterol = CholesterolDefault
          /\ glucose = GlucoseDefault
       \/ /\ bmi = BmiDefault
          /\ bp = BpDefault
          /\ cholesterol \in CholesterolMin..CholesterolMax
          /\ glucose = GlucoseDefault
       \/ /\ bmi = BmiDefault
          /\ bp = BpDefault
          /\ cholesterol = CholesterolDefault
          /\ glucose \in GlucoseMin..GlucoseMax
    /\ smoking \in SmokingValues
    /\ pc = "form"
    /\ risk = ""
    /\ color = ""
    /\ score = InitialScore
    /\ recommendations = << >>
    /\ earlier = NoCall
    /\ NoReport
    /\ category = ""
    /\ NoResult

CategorizeBp ==
    /\ pc = "done"
    /\ category' = calculate_bp_category(bp)
    /\ pc' = "categorized"
    /\ UNCHANGED <<args, Result, screen, interpretation, frames, heap, earlier, pdf, pdf_bytes, pdf_calls, messages, download>>

Categorize(label, to) ==
    /\ pc = "done"
    /\ category' = label
    /\ pc' = to
    /\ UNCHANGED <<args, Result, screen, interpretation, frames, heap, earlier,
                   pdf, pdf_bytes, pdf_calls, messages, download>>

CategorizeBmi == Categorize(calculate_bmi_category(bmi), "categorized_bmi")

CategorizeCholesterol ==
    Categorize(calculate_cholesterol_category(cholesterol), "categorized_cholesterol")

CategorizeGlucose == Categorize(calculate_glucose_category(glucose), "categorized_glucose")

NextCategory ==
    \/ Submit
    \/ CategorizeBp
    \/ CategorizeBmi
    \/ CategorizeCholesterol
    \/ CategorizeGlucose

SpecCategory == InitCategory /\ [][NextCategory]_vars

\* Two pressures are scored by the same branch of the blood-pressure
\* section of calculate_risk (the six branches differ in their penalty).
SameBpBucket(p, q) == BpAssessment(Start, p) = BpAssessment(Start, q)

\* C20: over 60..250 calculate_bp_category gives two pressures the same
\* label exactly if calculate_risk scores them in the same blood-pressure
\* bucket; label and bucket both change at 90, 120, 130, 140 and 180 and
\* nowhere else, the threshold itself belonging to the upper side.
C20_BpCategoryMatchesScoring ==
    pc = "categorized" =>
        /\ \A q \in 60..250 :
               (calculate_bp_category(q) = category) <=> SameBpBucket(q, bp)
        /\ bp > 60 =>
               /\ (category /= calculate_bp_category(bp - 1))
                      <=> bp \in {90, 120, 130, 140, 180}
               /\ ~SameBpBucket(bp, bp - 1) <=> bp \in {90, 120, 130, 140, 180}
        /\ score = BmiPenalty(bmi) + BpPenalty(bp) + CholesterolPenalty(cholesterol)
                       + GlucosePenalty(glucose) + AgePenalty(age) + SmokingPenalty(smoking)

C20_Witness ==
    /\ pc = "categorized"
    /\ bp = 120
    /\ category = "Elevated"
    /\ BpPenalty(bp) = 5
    /\ calculate_bp_category(119) = "Normal"
    /\ BpPenalty(119) = 0

BmiLabels ==
    {"Underweight", "Normal Weight", "Overweight", "Obese (Class I)",
     "Obese (Class II)", "Obese (Class III)"}

\* C21: calculate_bmi_category has six labels, each of them used; two BMI
\* values with the same label get the same scoring penalty; and the top
\* scoring bucket, bmi >= 35 with penalty 3.5, holds two labels, Obese
\* (Class II) on [35,40) and Obese (Class III) from 40 on.
C21_BmiCategoryRefinesScoring ==
    pc = "categorized_bmi" =>
        /\ category \in BmiLabels
        /\ Cardinality(BmiLabels) = 6
        /\ {calculate_bmi_category(q) : q \in 100..600} = BmiLabels
        /\ \A q \in 100..600 :
               calculate_bmi_category(q) = category => BmiPenalty(q) = BmiPenalty(bmi)
        /\ bmi >= 350 =>
               /\ BmiPenalty(bmi) = 35
               /\ category = IF bmi < 400 THEN "Obese (Class II)" ELSE "Obese (Class III)"
        /\ bmi < 350 =>
               /\ BmiPenalty(bmi) /= 35
               /\ category \notin {"Obese (Class II)", "Obese (Class III)"}
               /\ \A q \in 100..349 :
                      BmiPenalty(q) = BmiPenalty(bmi) => calculate_bmi_category(q) = category

C21_Witness ==
    /\ pc = "categorized_bmi"
    /\ bmi = 400
    /\ category = "Obese (Class III)"
    /\ calculate_bmi_category(399) = "Obese (Class II)"
    /\ BmiPenalty(399) = 35
    /\ BmiPenalty(400) = 35

\* Two values are scored by the same branch of their section of
\* calculate_risk (the branches of a section differ in their penalty).
SameCholesterolBucket(c, d) ==
    CholesterolAssessment(Start, c) = CholesterolAssessment(Start, d)

SameGlucoseBucket(g, h) == GlucoseAssessment(Start, g) = GlucoseAssessment(Start, h)

\* C22 as stated: the partition of 100..400 by calculate_cholesterol_category
\* differs from the partition by the cholesterol scoring buckets, and the
\* partition of 50..300 by calculate_glucose_category differs from the
\* partition by the glucose scoring buckets: in each range there are two
\* values that one of the two puts together and the other apart.
C22_PartitionsDiffer ==
    /\ pc = "categorized_cholesterol" =>
           \E c, d \in 100..400 :
               (calculate_cholesterol_category(c) = calculate_cholesterol_category(d))
                   /= SameCholesterolBucket(c, d)
    /\ pc = "categorized_glucose" =>
           \E g, h \in 50..300 :
               (calculate_glucose_category(g) = calculate_glucose_category(h))
                   /= SameGlucoseBucket(g, h)

\* C22 amended: the cholesterol and glucose categorizers use the boundaries
\* of the scorer: two cholesterol values of 100..400 get the same label
\* exactly if they are scored in the same bucket (thresholds 200 and 240),
\* and two glucose values of 50..300 likewise (thresholds 70, 100 and 126),
\* each threshold belonging to the upper side.
C22_PartitionsAgree ==
    /\ pc = "categorized_cholesterol" =>
           /\ \A c \in 100..400 :
                  (calculate_cholesterol_category(c) = category)
                      <=> SameCholesterolBucket(c, cholesterol)
           /\ cholesterol > 100 =>
                  /\ (category /= calculate_cholesterol_category(cholesterol - 1))
                         <=> cholesterol \in {200, 240}
                  /\ ~SameCholesterolBucket(cholesterol, cholesterol - 1)
                         <=> cholesterol \in {200, 240}
    /\ pc = "categorized_glucose" =>
           /\ \A g \in 50..300 :
                  (calculate_glucose_category(g) = category) <=> SameGlucoseBucket(g, glucose)
           /\ glucose > 50 =>
                  /\ (category /= calculate_glucose_category(glucose - 1))
                         <=> glucose \in {70, 100, 126}
                  /\ ~SameGlucoseBucket(glucose, glucose - 1) <=> glucose \in {70, 100, 126}

C22_Witness ==
    /\ pc = "categorized_cholesterol"
    /\ cholesterol = 240
    /\ category = "High"
    /\ CholesterolPenalty(240) = 25
    /\ calculate_cholesterol_category(239) = "Borderline High"
    /\ CholesterolPenalty(239) = 15

(***************************************************************************)
(* Direct invocations of calculate_risk running at the same time, as two  *)
(* sessions of the server or two threads do.  A frame holds the locals of *)
(* one invocation; its list is an object of the heap that the frame       *)
(* refers to, appended to in place; the callers may afterwards append to  *)
(* or truncate the list they were handed.  The steps of the invocations   *)
(* interleave in every order.                                             *)
(***************************************************************************)
Invocations == 2

ExampleCalls ==
    { <<AgeDefault, BmiDefault, BpDefault, CholesterolDefault, GlucoseDefault, SmokingDefault>>,
      <<65, 380, 190, 260, 135, "Current smoker">>,
      <<25, 220, 110, 180, 85, "Non-smoker">> }

NoList == 0

Frame(a) ==
    [args |-> a, at |-> "call", risk_score |-> InitialScore, recommendations |-> NoList,
     result |-> NoCall, touched |-> FALSE]

\* The page, which the direct invocations leave alone.
Page ==
    <<args, pc, Result, screen, interpretation, earlier,
      pdf, pdf_bytes, pdf_calls, messages, download, category>>

InitConcurrent ==
    /\ age = AgeDefault
    /\ bmi = BmiDefault
    /\ bp = BpDefault
    /\ cholesterol = CholesterolDefault
    /\ glucose = GlucoseDefault
    /\ smoking = SmokingDefault
    /\ pc = "form"
    /\ risk = ""
    /\ color = ""
    /\ score = InitialScore
    /\ recommendations = << >>
    /\ earlier = NoCall
    /\ NoReport
    /\ category = ""
    /\ screen = << >>
    /\ interpretation = ""
    /\ frames \in [1..Invocations -> {Frame(a) : a \in ExampleCalls}]
    /\ heap = << >>

\* One list object serves every invocation.
NewList_Shared(h) == 1

\* recommendations = []  makes a list object that no one else refers to.
NewList(h) == Len(h) + 1

\* risk_score = 0.0; recommendations = []
Enter(i) ==
    /\ frames[i].at = "call"
    /\ LET ref == NewList(heap)
       IN  /\ heap' = [j \in 1..(IF ref > Len(heap) THEN ref ELSE Len(heap)) |->
                          IF j = ref THEN InitialRecommendations ELSE heap[j]]
           /\ frames' = [frames EXCEPT ![i].risk_score = InitialScore,
                                       ![i].recommendations = ref,
                                       ![i].at = "bmi"]
    /\ UNCHANGED Page

\* The locals of invocation i as the sections see them.
Locals(i) ==
    [risk_score |-> frames[i].risk_score,
     recommendations |-> heap[frames[i].recommendations]]

\* A section has run: the score is rebound, the list changed in place.
Ran(i, from, acc, to) ==
    /\ frames[i].at = from
    /\ frames' = [frames EXCEPT ![i].risk_score = acc.risk_score, ![i].at = to]
    /\ heap' = [heap EXCEPT ![frames[i].recommendations] = acc.recommendations]
    /\ UNCHANGED Page

RunBmi(i) == Ran(i, "bmi", BmiAssessment(Locals(i), frames[i].args[2]), "bp")

RunBp(i) == Ran(i, "bp", BpAssessment(Locals(i), frames[i].args[3]), "cholesterol")

RunCholesterol(i) ==
    Ran(i, "cholesterol", CholesterolAssessment(Locals(i), frames[i].args[4]), "glucose")

RunGlucose(i) == Ran(i, "glucose", GlucoseAssessment(Locals(i), frames[i].args[5]), "age")

RunAge(i) == Ran(i, "age", AgeFactor(Locals(i), frames[i].args[1]), "smoking")

RunSmoking(i) == Ran(i, "smoking", SmokingFactor(Locals(i), frames[i].args[6]), "general")

RunGeneral(i) == Ran(i, "general", GeneralRecommendations(Locals(i)), "tier")

\* return risk_level, color, risk_score, recommendations
Return(i) ==
    /\ frames[i].at = "tier"
    /\ LET lvl == RiskLevel(frames[i].risk_score)
       IN  frames' = [frames EXCEPT
                         ![i].result = [made |-> TRUE,
                                        risk_level |-> lvl.risk_level,
                                        color |-> lvl.color,
                                        risk_score |-> frames[i].risk_score,
                                        recommendations |-> frames[i].recommendations],
                         ![i].at = "returned"]
    /\ UNCHANGED <<heap, Page>>

\* The caller changes the list it was handed.
Touch(i, list) ==
    /\ frames[i].at = "returned"
    /\ ~frames[i].touched
    /\ heap' = [heap EXCEPT ![frames[i].result.recommendations] = list]
    /\ frames' = [frames EXCEPT ![i].touched = TRUE]
    /\ UNCHANGED Page

AppendTo(i) ==
    Touch(i, Append(heap[frames[i].result.recommendations], "Note of the caller."))

Truncate(i) == Touch(i, SubSeq(heap[frames[i].result.recommendations], 1, 3))

NextConcurrent ==
    \E i \in 1..Invocations :
        \/ Enter(i)
        \/ RunBmi(i)
        \/ RunBp(i)
        \/ RunCholesterol(i)
        \/ RunGlucose(i)
        \/ RunAge(i)
        \/ RunSmoking(i)
        \/ RunGeneral(i)
        \/ Return(i)
        \/ AppendTo(i)
        \/ Truncate(i)

SpecConcurrent == InitConcurrent /\ [][NextConcurrent]_vars

\* What invocation i returned, with the list in place of the reference.
Returned(i) ==
    [risk_level |-> frames[i].result.risk_level,
     color |-> frames[i].result.color,
     risk_score |-> frames[i].result.risk_score,
     recommendations |-> heap[frames[i].result.recommendations]]

Alone(i) ==
    calculate_risk(frames[i].args[1], frames[i].args[2], frames[i].args[3],
                   frames[i].args[4], frames[i].args[5], frames[i].args[6])

\* C23: in every interleaving of the invocations of calculate_risk, an
\* invocation returns what it returns when run alone, and keeps it while
\* its own caller leaves the list alone, whatever the other invocation
\* does before, meanwhile or afterwards and whatever the other caller does
\* to its list: no two invocations refer to the same list.
C23_NoSharedState ==
    \A i \in DOMAIN frames :
        /\ frames[i].at = "returned" =>
               /\ Returned(i).risk_level = Alone(i).risk_level
               /\ Returned(i).color = Alone(i).color
               /\ Returned(i).risk_score = Alone(i).risk_score
               /\ ~frames[i].touched => Returned(i) = Alone(i)
        /\ \A j \in DOMAIN frames :
               (i /= j /\ frames[i].recommendations /= NoList) =>
                   frames[i].recommendations /= frames[j].recommendations

C23_Witness ==
    /\ frames /= << >>
    /\ frames[1].at = "returned"
    /\ frames[2].at = "returned"
    /\ frames[2].touched
    /\ ~frames[1].touched
    /\ frames[1].args = frames[2].args
    /\ Returned(1) = Alone(1)
    /\ Returned(2) /= Alone(2)

(***************************************************************************)
(* Filling the form.  The user types what they like into a number widget; *)
(* the widget, given min_value and max_value, takes a value of its range  *)
(* as typed, and on any other keeps the value it has or moves to the end  *)
(* of the range that was passed.  The select box offers its options only. *)
(***************************************************************************)
\* The widget takes whatever is typed.
number_input_Unchecked(min_value, max_value, value, typed) == {typed}

number_input(min_value, max_value, value, typed) ==
    IF min_value <= typed /\ typed <= max_value THEN {typed}
    ELSE {value, IF typed < min_value THEN min_value ELSE max_value}

\* What is typed: the ends of the range and the values next to them outside.
Typed(min_value, max_value) == {min_value - 1, min_value, max_value, max_value + 1}

InitForm ==
    /\ age = AgeDefault
    /\ bmi = BmiDefault
    /\ bp = BpDefault
    /\ cholesterol = CholesterolDefault
    /\ glucose = GlucoseDefault
    /\ smoking = SmokingDefault
    /\ pc = "form"
    /\ risk = ""
    /\ color = ""
    /\ score = InitialScore
    /\ recommendations = << >>
    /\ earlier = NoCall
    /\ NoReport
    /\ category = ""
    /\ NoResult

\* The page but for the six widgets.
Shown ==
    <<pc, Result, screen, interpretation, frames, heap, earlier,
      pdf, pdf_bytes, pdf_calls, messages, download, category>>

TypeAge ==
    /\ pc = "form"
    /\ \E t \in Typed(AgeMin, AgeMax) : age' \in number_input(AgeMin, AgeMax, age, t)
    /\ UNCHANGED <<bmi, bp, cholesterol, glucose, smoking, Shown>>

TypeBmi ==
    /\ pc = "form"
    /\ \E t \in Typed(BmiMin, BmiMax) : bmi' \in number_input(BmiMin, BmiMax, bmi, t)
    /\ UNCHANGED <<age, bp, cholesterol, glucose, smoking, Shown>>

TypeBp ==
    /\ pc = "form"
    /\ \E t \in Typed(BpMin, BpMax) : bp' \in number_input(BpMin, BpMax, bp, t)
    /\ UNCHANGED <<age, bmi, cholesterol, glucose, smoking, Shown>>

TypeCholesterol ==
    /\ pc = "form"
    /\ \E t \in Typed(CholesterolMin, CholesterolMax) :
           cholesterol' \in number_input(CholesterolMin, CholesterolMax, cholesterol, t)
    /\ UNCHANGED <<age, bmi, bp, glucose, smoking, Shown>>

TypeGlucose ==
    /\ pc = "form"
    /\ \E t \in Typed(GlucoseMin, GlucoseMax) :
           glucose' \in number_input(GlucoseMin, GlucoseMax, glucose, t)
    /\ UNCHANGED <<age, bmi, bp, cholesterol, smoking, Shown>>

SelectSmoking ==
    /\ pc = "form"
    /\ smoking' \in Range(SmokingOptions)
    /\ UNCHANGED <<age, bmi, bp, cholesterol, glucose, Shown>>

NextForm ==
    \/ TypeAge
    \/ TypeBmi
    \/ TypeBp
    \/ TypeCholesterol
    \/ TypeGlucose
    \/ SelectSmoking
    \/ Submit

SpecForm == InitForm /\ [][NextForm]_vars

\* C24: whatever the user types, the form holds and show_risk_simulation
\* passes to calculate_risk an age in 1..120, a bmi in 10.0..60.0, a bp in
\* 60..250, a cholesterol in 100..400, a glucose in 50..300 and one of the
\* three smoking statuses; and at the ends of these ranges too
\* calculate_risk returns a tier, a color, a score and a list.
C24_InputsInDomain ==
    /\ age \in 1..120
    /\ bmi \in 100..600
    /\ bp \in 60..250
    /\ cholesterol \in 100..400
    /\ glucose \in 50..300
    /\ smoking \in {"Non-smoker", "Former smoker", "Current smoker"}
    /\ pc = "done" =>
           /\ risk \in {"Low Risk", "Low-Moderate Risk", "Moderate Risk", "High Risk"}
           /\ color \in {"#27AE60", "#F9A825", "#F39C12", "#E74C3C"}
           /\ score \in 0..162
           /\ Len(recommendations) \in 10..11

C24_Witness ==
    /\ pc = "done"
    /\ age = 120
    /\ bmi = 100
    /\ bp = 250
    /\ cholesterol = 100
    /\ glucose = 300
    /\ smoking = "Former smoker"
    /\ risk = "High Risk"

\* The texts of the numbered items of a document.
ItemTexts(doc) ==
    LET items == Cells(doc, "recommendation")
    IN  [i \in DOMAIN items |-> items[i].text]

\* C25: calculate_risk returns 10 recommendations when age < 45 and 11 when
\* age >= 45.  The page lists all of them.  The report lists all of them
\* when age < 45; when age >= 45 it lists the first ten, so its last item
\* is the fourth general-wellness line and the fifth, "Schedule regular
\* check-ups with your healthcare provider.", is the one entry left out.
C25_ReportOmitsLastLine ==
    pc /= "form" =>
        LET n == Len(recommendations)
            last == "Schedule regular check-ups with your healthcare provider."
        IN  /\ n = IF age < 45 THEN 10 ELSE 11
            /\ recommendations[n] = last
            /\ Len(screen) = n
            /\ \A i \in 1..n : screen[i] = ToString(i) \o ". " \o recommendations[i]
            /\ (pc \in {"pdf_disclaimer", "pdf_output"} \/ pdf_bytes /= << >>) =>
                   LET listed == ItemTexts(Written)
                   IN  /\ age < 45 => listed = screen
                       /\ age >= 45 =>
                              /\ listed = SubSeq(screen, 1, 10)
                              /\ Len(listed) = n - 1
                              /\ listed[10] = "10. " \o GeneralWellness[4]
                              /\ \A i \in 1..10 : listed[i] /= ToString(i) \o ". " \o last
                              /\ screen[11] = "11. " \o last

C25_Witness ==
    /\ pc = "returned"
    /\ age = 45
    /\ Len(recommendations) = 11
    /\ Len(screen) = 11
    /\ Len(ItemTexts(pdf_bytes)) = 10
    /\ ItemTexts(pdf_bytes)[10]
           = "10. Manage stress through relaxation techniques, meditation, or hobbies."

(***************************************************************************)
(* get_risk_interpretation, applied to the tier of a submission.          *)
(***************************************************************************)
\* The key of the second tier written without its hyphen.
interpretations_Hyphenless ==
    ("Low Risk" :> "Your current health metrics indicate a low risk profile. Continue maintaining healthy lifestyle habits and regular check-ups.")
    @@ ("Low Moderate Risk" :> "Your health metrics show some areas that could benefit from attention. Minor lifestyle modifications may help reduce your risk further.")
    @@ ("Moderate Risk" :> "Your health metrics indicate moderate risk factors. It's important to address these through lifestyle changes and possibly medical consultation.")
    @@ ("High Risk" :> "Your health metrics indicate significant risk factors. We strongly recommend consulting with a healthcare professional for a comprehensive evaluation and treatment plan.")

interpretations ==
    ("Low Risk" :> "Your current health metrics indicate a low risk profile. Continue maintaining healthy lifestyle habits and regular check-ups.")
    @@ ("Low-Moderate Risk" :> "Your health metrics show some areas that could benefit from attention. Minor lifestyle modifications may help reduce your risk further.")
    @@ ("Moderate Risk" :> "Your health metrics indicate moderate risk factors. It's important to address these through lifestyle changes and possibly medical consultation.")
    @@ ("High Risk" :> "Your health metrics indicate significant risk factors. We strongly recommend consulting with a healthcare professional for a comprehensive evaluation and treatment plan.")

Fallback == "Please consult a healthcare professional for interpretation."

\* interpretations.get(risk_level, ...)
get_risk_interpretation(risk_level) ==
    IF risk_level \in DOMAIN interpretations THEN interpretations[risk_level] ELSE Fallback

Interpret ==
    /\ pc = "done"
    /\ interpretation' = get_risk_interpretation(risk)
    /\ pc' = "interpreted"
    /\ UNCHANGED <<args, Result, screen, frames, heap, earlier,
                   pdf, pdf_bytes, pdf_calls, messages, download, category>>

NextInterpret ==
    \/ Submit
    \/ Interpret

SpecInterpret == InitReport /\ [][NextInterpret]_vars

\* C26: the tier of every result of calculate_risk is a key of the table
\* of get_risk_interpretation: the text returned for it is the text of
\* that tier and not the fallback, and it differs from the text of each of
\* the other three tiers.
C26_EveryTierInterpreted ==
    pc = "interpreted" =>
        /\ risk \in {"Low Risk", "Low-Moderate Risk", "Moderate Risk", "High Risk"}
        /\ interpretation /= "Please consult a healthcare professional for interpretation."
        /\ risk = "Low Risk" => Contains("indicate a low risk profile", interpretation)
        /\ risk = "Low-Moderate Risk" =>
               Contains("show some areas that could benefit from attention", interpretation)
        /\ risk = "Moderate Risk" => Contains("indicate moderate risk factors", interpretation)
        /\ risk = "High Risk" => Contains("indicate significant risk factors", interpretation)
        /\ \A t \in {"Low Risk", "Low-Moderate Risk", "Moderate Risk", "High Risk"} :
               t /= risk => get_risk_interpretation(t) /= interpretation

C26_Witness ==
    /\ pc = "interpreted"
    /\ risk = "Low-Moderate Risk"
    /\ Contains("Minor lifestyle modifications", interpretation)

(***************************************************************************)
(* calculate_risk called directly, by code that is not the form: the      *)
(* smoking argument is any string, or is left out.                        *)
(***************************************************************************)
\* The call gives no sixth argument.
Omitted == "<omitted>"

\* smoking: str = "Non-smoker"
SmokingParameterDefault == "Non-smoker"

Bind(s) == IF s = Omitted THEN SmokingParameterDefault ELSE s

DirectSmokings ==
    Range(SmokingOptions)
        \cup {Omitted, "", "current smoker", "former smoker", "Smoker", "Non-Smoker", "Curent smoker"}

InitDirect ==
    /\ age \in ExampleAges
    /\ bmi \in ExampleBmis
    /\ bp \in ExampleBps
    /\ cholesterol \in ExampleCholesterols
    /\ glucose \in ExampleGlucoses
    /\ smoking \in DirectSmokings
    /\ pc = "form"
    /\ risk = ""
    /\ color = ""
    /\ score = InitialScore
    /\ recommendations = << >>
    /\ earlier = NoCall
    /\ NoReport
    /\ category = ""
    /\ NoResult

DirectCall ==
    /\ pc = "form"
    /\ LET r == calculate_risk(age, bmi, bp, cholesterol, glucose, Bind(smoking))
       IN  /\ risk' = r.risk_level
           /\ color' = r.color
           /\ score' = r.risk_score
           /\ recommendations' = r.recommendations
    /\ pc' = "done"
    /\ UNCHANGED <<args, screen, interpretation, frames, heap, earlier,
                   pdf, pdf_bytes, pdf_calls, messages, download, category>>

NextDirect == DirectCall

SpecDirect == InitDirect /\ [][NextDirect]_vars

\* C27: a smoking argument that is neither "Current smoker" nor "Former
\* smoker" (the default of an omitted argument, another case or spelling,
\* the empty string) is scored as a non-smoker: a result is returned, no
\* smoking penalty is in the score, the smoke-free congratulation is the
\* smoking line of the list, and the score is 0.5 below that of a former
\* and 2.0 below that of a current smoker with the same other inputs.
C27_UnrecognisedIsNonSmoker ==
    (pc = "done" /\ smoking \notin {"Current smoker", "Former smoker"}) =>
        LET others == BmiPenalty(bmi) + BpPenalty(bp) + CholesterolPenalty(cholesterol)
                          + GlucosePenalty(glucose) + AgePenalty(age)
            n == Len(recommendations)
        IN  /\ risk \in {"Low Risk", "Low-Moderate Risk", "Moderate Risk", "High Risk"}
            /\ score = others
            /\ recommendations[n - 5]
                   = "Excellent! Staying smoke-free is one of the best health decisions."
            /\ Count(SmokingAdvisories) = 1
            /\ score = calculate_risk(age, bmi, bp, cholesterol, glucose, "Non-smoker").risk_score
            /\ score + 5
                   = calculate_risk(age, bmi, bp, cholesterol, glucose, "Former smoker").risk_score
            /\ score + 20
                   = calculate_risk(age, bmi, bp, cholesterol, glucose, "Current smoker").risk_score

C27_Witness ==
    /\ pc = "done"
    /\ smoking = "current smoker"
    /\ args = <<65, 380, 190, 260, 135, "current smoker">>
    /\ score = 142
    /\ recommendations[6] = "Excellent! Staying smoke-free is one of the best health decisions."

====
